---- MODULE Spec2Model ----
(***************************************************************************)
(* Model of the two ComfyUI nodes of ComfyUI-stable-wildcards:             *)
(*   swnodes/StableWildcard.py               (seeded wildcard resolution)  *)
(*   swnodes/SpotlessTextSplitByDelimiter.py (split / window)              *)
(* A Python str is a sequence of one-character strings.                    *)
(***************************************************************************)
EXTENDS Integers, Sequences, FiniteSets, TLC

VARIABLES
    pc,          \* "idle" | "while" (loop head, line 91) | "returned" | "raised"
    prompt_arg,  \* the prompt argument of the current call  [kind, s]
    seed_arg,    \* the seed argument of the current call    [kind, n]
    prompt,      \* the local variable prompt (the current string state)
    rng,         \* the local generator of the current call  [seed, pos]
    match,       \* the local variable match                 [start, end]
    result,      \* the value returned                       [has, s]
    picks,       \* history: the indices drawn by rng.randint, in order
    prev,        \* history: prompt before the last replacement
    lastMatch,   \* history: match used by the last replacement
    lastPick,    \* history: option chosen by the last replacement
    ref,         \* history: the first call that returned    [set, p, n, s, other]
    fn,          \* "process_wildcards" | "execute": the entry point called
    id_arg,      \* kwargs 'id'                              [kind, n]
    png_in,      \* kwargs 'png_info' as handed in
    png_info,    \* kwargs 'png_info' after the call
    s_pc,        \* splitter: "idle" | "returned" | "raised"
    text, delimiter, start_index, skip_every, max_count,  \* arguments of run
    arr          \* splitter: the sequence returned

wvars == <<pc, prompt_arg, seed_arg, prompt, rng, match, result, picks, prev,
           lastMatch, lastPick>>
nvars == <<fn, id_arg, png_in, png_info>>
svars == <<s_pc, text, delimiter, start_index, skip_every, max_count, arr>>
vars  == <<wvars, ref, nvars, svars>>

-----------------------------------------------------------------------------
(* Bounds of the model *)

MaxLen    == 5   \* prompts: every string over Alphabet up to this length
MaxPieces == 3   \* prompts: every concatenation of up to this many Pieces
MaxSeed   == 2   \* seeds 0..MaxSeed
MaxDraws  == 4   \* cap on the iterations of one call (no call within the bounds reaches it)
MaxSmall  == 1   \* small prompts: concatenations of up to this many Pieces
MaxIds    == 2   \* node ids 1..MaxIds
MaxText   == 3   \* splitter texts: every string over TextAlphabet up to this length
MaxStart  == 2   \* start_index 0..MaxStart
MaxSkip   == 1   \* skip_every 0..MaxSkip
MaxCount  == 2   \* max_count 1..MaxCount

Alphabet == {"{", "}", "|", "a", "b"}

RECURSIVE Concat(_)
Concat(ss) == IF ss = <<>> THEN <<>> ELSE Head(ss) \o Concat(Tail(ss))

StringsUpTo(A, n) == UNION {[1..k -> A] : k \in 0..n}

Pieces == { <<"a">>,
            <<"{", "a", "|", "b", "}">>,
            <<"{", "b", "}">>,
            <<"{", "|", "a", "}">>,
            <<"{">>,
            <<"}">> }

Prompts == StringsUpTo(Alphabet, MaxLen)
             \cup {Concat(ps) : ps \in StringsUpTo(Pieces, MaxPieces)}

SmallPrompts == {Concat(ps) : ps \in StringsUpTo(Pieces, MaxSmall)}

Seeds == 0..MaxSeed
Ids   == 1..MaxIds

-----------------------------------------------------------------------------
(* Python values handed to the functions *)

StrVal(s) == [kind |-> "str", s |-> s]
NonStrPrompts == {[kind |-> k, s |-> <<>>] : k \in {"absent", "None", "int", "list"}}

IntVal(n) == [kind |-> "int", n |-> n]
NonIntSeeds == {[kind |-> k, n |-> 0] : k \in {"absent", "None", "str", "float"}}
BoolSeeds   == {[kind |-> "bool", n |-> n] : n \in {0, 1}}

\* isinstance(prompt, str), lines 79 and 117
IsStr(v) == v.kind = "str"
\* isinstance(seed, int), lines 83 and 121: bool is a subclass of int
IsInt(v) == v.kind \in {"int", "bool"}

\* lines 77-84 (and 115-122): the argument checks, in order.  A missing
\* positional argument is a TypeError of the call itself.
Validate_noint(p, s) ==
    IF p.kind = "absent" \/ s.kind = "absent" THEN "TypeError"
    ELSE IF p.kind = "None" THEN "TypeError"
    ELSE IF ~IsStr(p) THEN "TypeError"
    ELSE IF s.kind = "None" THEN "TypeError"
    ELSE "ok"
Validate(p, s) ==
    IF p.kind = "absent" \/ s.kind = "absent" THEN "TypeError"
    ELSE IF p.kind = "None" THEN "TypeError"
    ELSE IF ~IsStr(p) THEN "TypeError"
    ELSE IF s.kind = "None" THEN "TypeError"
    ELSE IF ~IsInt(s) THEN "TypeError"
    ELSE "ok"

-----------------------------------------------------------------------------
(* random.Random: Mersenne Twister.  MTWords[seed+1][i] is the top 8 bits  *)
(* of the i-th 32-bit output of Random(seed) in CPython.                   *)

MTWords == <<
    <<216, 98, 194, 227, 107, 10, 66, 247, 130, 124, 103, 235, 200, 212, 77, 247, 122, 91, 149, 228, 232, 55, 129, 35, 72, 35, 193, 24, 158, 204, 64, 252, 232, 136, 251, 180, 207, 154, 230, 37>>,
    <<34, 145, 216, 205, 195, 16, 65, 30, 126, 194, 115, 120, 166, 97, 201, 53, 24, 124, 7, 228, 213, 99, 110, 155, 195, 196, 0, 178, 114, 68, 184, 205, 58, 151, 241, 26, 230, 81, 7, 5>>,
    <<244, 220, 242, 217, 14, 23, 21, 92, 213, 43, 188, 207, 171, 218, 78, 64, 155, 54, 155, 9, 148, 174, 40, 255, 110, 163, 100, 205, 185, 220, 254, 130, 243, 95, 139, 239, 113, 128, 68, 230>>,
    <<60, 151, 139, 33, 94, 234, 154, 121, 160, 148, 16, 155, 3, 232, 214, 120, 66, 141, 59, 49, 254, 183, 120, 138, 214, 140, 121, 101, 163, 220, 38, 59, 162, 38, 222, 237, 133, 99, 189, 3>>,
    <<60, 77, 26, 184, 101, 122, 39, 23, 17, 5, 102, 140, 234, 74, 204, 253, 195, 15, 56, 133, 137, 92, 70, 199, 44, 211, 27, 67, 54, 241, 237, 6, 212, 164, 206, 66, 204, 69, 49, 42>>,
    <<159, 65, 189, 91, 203, 176, 241, 215, 189, 166, 236, 135, 7, 215, 119, 198, 241, 63, 166, 13, 230, 40, 28, 95, 120, 222, 63, 97, 139, 26, 146, 63, 3, 187, 55, 104, 71, 46, 234, 222>> >>

\* Random(int(seed)), line 87: a generator of its own, at the start of the
\* stream of its seed.
NoRng == [seed |-> -1, pos |-> 0]
Random_shared(seed) == IF rng = NoRng THEN [seed |-> seed, pos |-> 0] ELSE rng
Random(seed) == [seed |-> seed, pos |-> 0]

RECURSIVE BitLength(_)
BitLength(n) == IF n = 0 THEN 0 ELSE 1 + BitLength(n \div 2)

\* getrandbits(k), k <= 8: the top k bits of the next 32-bit word
GetRandBits(g, k) ==
    [val |-> MTWords[g.seed + 1][g.pos + 1] \div (2 ^ (8 - k)),
     rng |-> [g EXCEPT !.pos = @ + 1]]

\* Random._randbelow_with_getrandbits(n): rejection sampling
RECURSIVE RandBelow(_, _)
RandBelow(g, n) ==
    LET d == GetRandBits(g, BitLength(n))
    IN  IF d.val >= n THEN RandBelow(d.rng, n) ELSE d

\* rng.randint(a, b), line 101: randrange(a, b + 1)
RandInt(g, a, b) ==
    LET d == RandBelow(g, b + 1 - a)
    IN  [val |-> a + d.val, rng |-> d.rng]

-----------------------------------------------------------------------------
(* re and str operations used by process_wildcards *)

IsBrace(c) == c \in {"{", "}"}

\* The end of the match of '{[^{}]+}' that starts at i, or 0: '{', then the
\* longest run of non-brace characters (at least one), then '}'.
RECURSIVE RunEnd(_, _)
RunEnd(s, j) == IF j <= Len(s) /\ ~IsBrace(s[j]) THEN RunEnd(s, j + 1) ELSE j

MatchEndAt_empty(s, i) ==
    IF s[i] # "{" THEN 0
    ELSE LET j == RunEnd(s, i + 1)
         IN  IF j <= Len(s) /\ s[j] = "}" THEN j ELSE 0
MatchEndAt(s, i) ==
    IF s[i] # "{" THEN 0
    ELSE LET j == RunEnd(s, i + 1)
         IN  IF j <= Len(s) /\ s[j] = "}" /\ j >= i + 2 THEN j ELSE 0

NoMatch == [start |-> 0, end |-> 0]

\* WILDCARD_PATTERN.search(s), lines 49, 90, 108: the leftmost match
RECURSIVE SearchFrom(_, _)
SearchFrom(s, i) ==
    IF i > Len(s) THEN NoMatch
    ELSE IF MatchEndAt(s, i) > 0 THEN [start |-> i, end |-> MatchEndAt(s, i)]
    ELSE SearchFrom(s, i + 1)

RECURSIVE SearchLast(_, _)
SearchLast(s, i) ==
    IF i < 1 THEN NoMatch
    ELSE IF MatchEndAt(s, i) > 0 THEN [start |-> i, end |-> MatchEndAt(s, i)]
    ELSE SearchLast(s, i - 1)

Search_rightmost(s) == SearchLast(s, Len(s))
Search(s) == SearchFrom(s, 1)

\* match.group()
Group(s, m) == SubSeq(s, m.start, m.end)

\* str.split(sep) for a one-character sep: at least one element
RECURSIVE SplitChar(_, _, _)
SplitChar(s, sep, acc) ==
    IF s = <<>> THEN <<acc>>
    ELSE IF Head(s) = sep THEN <<acc>> \o SplitChar(Tail(s), sep, <<>>)
    ELSE SplitChar(Tail(s), sep, Append(acc, Head(s)))

\* match.group()[1:-1].split('|'), line 95
Options_nostrip(g) == SplitChar(g, "|", <<>>)
Options(g) == SplitChar(SubSeq(g, 2, Len(g) - 1), "|", <<>>)

\* str.find(sub): the first index at which sub occurs, or 0
OccursAt(s, sub, i) ==
    /\ i + Len(sub) - 1 <= Len(s)
    /\ SubSeq(s, i, i + Len(sub) - 1) = sub

RECURSIVE FindFrom(_, _, _)
FindFrom(s, sub, i) ==
    IF i + Len(sub) - 1 > Len(s) THEN 0
    ELSE IF OccursAt(s, sub, i) THEN i
    ELSE FindFrom(s, sub, i + 1)

RECURSIVE FindLast(_, _, _)
FindLast(s, sub, i) ==
    IF i < 1 THEN 0
    ELSE IF OccursAt(s, sub, i) THEN i
    ELSE FindLast(s, sub, i - 1)

\* prompt.replace(old, new, 1), line 105: the first literal occurrence
ReplaceFirst_last(s, old, new) ==
    LET i == FindLast(s, old, Len(s))
    IN  IF i = 0 THEN s
        ELSE SubSeq(s, 1, i - 1) \o new \o SubSeq(s, i + Len(old), Len(s))
ReplaceFirst_none(s, old, new) == s
ReplaceFirst(s, old, new) ==
    LET i == FindFrom(s, old, 1)
    IN  IF i = 0 THEN s
        ELSE SubSeq(s, 1, i - 1) \o new \o SubSeq(s, i + Len(old), Len(s))

-----------------------------------------------------------------------------
(* StableWildcard.process_wildcards *)

NoResult == [has |-> FALSE, s |-> <<>>]

\* The locals of a call that has passed the argument checks, lines 87-90
Enter(p, n) ==
    [prompt |-> p, rng |-> Random(n), match |-> Search(p), picks |-> <<>>,
     prev |-> <<>>, lastMatch |-> NoMatch, lastPick |-> <<>>]

\* One pass through the body of the while loop, lines 95-108.  Each
\* statement's value is bound before the next statement uses it.
\* lines 105-108, with the option list and the draw made
Replaced(st, ops, d) ==
    CHOOSE r \in {[prompt |-> np, rng |-> d.rng, match |-> Search(np),
                   picks |-> Append(st.picks, d.val),
                   prev |-> st.prompt, lastMatch |-> st.match,
                   lastPick |-> ops[d.val + 1]]
                  : np \in {ReplaceFirst(st.prompt, Group(st.prompt, st.match),
                                         ops[d.val + 1])}} : TRUE

\* lines 97-101, with the option list made
Picked(st, ops) ==
    IF ops = <<>> THEN st
    ELSE CHOOSE r \in {Replaced(st, ops, d)
                       : d \in {RandInt(st.rng, 0, Len(ops) - 1)}} : TRUE

LoopBody(st) ==
    CHOOSE r \in {Picked(st, ops)
                  : ops \in {Options(Group(st.prompt, st.match))}} : TRUE

\* The whole loop, lines 91-109
RECURSIVE RunLoop(_)
RunLoop(st) == IF st.match = NoMatch THEN st ELSE RunLoop(LoopBody(st))

Locals == [prompt |-> prompt, rng |-> rng, match |-> match, picks |-> picks,
           prev |-> prev, lastMatch |-> lastMatch, lastPick |-> lastPick]

SetLocals(st) ==
    /\ prompt' = st.prompt
    /\ rng' = st.rng
    /\ match' = st.match
    /\ picks' = st.picks
    /\ prev' = st.prev
    /\ lastMatch' = st.lastMatch
    /\ lastPick' = st.lastPick

NoLocals == [prompt |-> <<>>, rng |-> NoRng, match |-> NoMatch, picks |-> <<>>,
             prev |-> <<>>, lastMatch |-> NoMatch, lastPick |-> <<>>]

\* process_wildcards(p, s) is entered: lines 77-90
Call(p, s) ==
    /\ pc # "while"
    /\ fn' = "process_wildcards"
    /\ prompt_arg' = p
    /\ seed_arg' = s
    /\ result' = NoResult
    /\ IF Validate(p, s) = "ok"
       THEN /\ pc' = "while"
            /\ SetLocals(Enter(p.s, s.n))
       ELSE /\ pc' = "raised"
            /\ SetLocals(NoLocals)
    /\ UNCHANGED <<ref, id_arg, png_in, png_info, svars>>

\* while match: ... lines 91-108
Iterate ==
    /\ pc = "while"
    /\ match # NoMatch
    /\ Len(picks) < MaxDraws
    /\ \E st \in {LoopBody(Locals)} : SetLocals(st)
    /\ UNCHANGED <<pc, prompt_arg, seed_arg, result, ref, nvars, svars>>

\* return prompt, line 109
ReturnStep ==
    /\ pc = "while"
    /\ match = NoMatch
    /\ pc' = "returned"
    /\ result' = [has |-> TRUE, s |-> prompt]
    /\ UNCHANGED <<prompt_arg, seed_arg, prompt, rng, match, picks, prev,
                   lastMatch, lastPick, nvars, svars>>

Return == ReturnStep /\ UNCHANGED ref

\* The same step, remembering the first call that returned
ReturnRemember ==
    /\ ReturnStep
    /\ ref' = IF ref.set
              THEN [ref EXCEPT !.other = @ \/ prompt_arg.s # ref.p \/ seed_arg.n # ref.n]
              ELSE [set |-> TRUE, p |-> prompt_arg.s, n |-> seed_arg.n, s |-> prompt,
                    other |-> FALSE]

-----------------------------------------------------------------------------
(* StableWildcard.execute *)

NoId == [kind |-> "missing", n |-> 0]
IdArgs == {NoId, [kind |-> "None", n |-> 0]} \cup {[kind |-> "str", n |-> i] : i \in Ids}

NotSaved == [has |-> FALSE, s |-> <<>>]
EmptySaved == [i \in Ids |-> NotSaved]

\* png_info: what kwargs['png_info'], ['workflow'], ['extra'] and
\* ['stable-wildcards'] are ("missing": no such key), and the entries of the
\* innermost mapping.
Png(a, b, c, d) == [png |-> a, wf |-> b, extra |-> c, sw |-> d, saved |-> EmptySaved]
NotDict == {"missing", "None", "other"}
PngShapes ==
    {Png(a, "missing", "missing", "missing") : a \in NotDict}
      \cup {Png("dict", b, "missing", "missing") : b \in NotDict}
      \cup {Png("dict", "dict", c, "missing") : c \in NotDict}
      \cup {Png("dict", "dict", "dict", d) : d \in NotDict \cup {"dict"}}

\* lines 130-158: the result is stored only where every container is a dict
SaveMetadata_unchecked(uid, png, p) ==
    IF uid.kind \in {"missing", "None"} \/ png.png # "dict"
    THEN [raised |-> FALSE, png |-> png]
    ELSE IF png.wf # "dict" THEN [raised |-> FALSE, png |-> png]
    ELSE LET w1 == IF png.extra = "missing" THEN [png EXCEPT !.extra = "dict"] ELSE png
         IN  IF w1.extra # "dict" THEN [raised |-> FALSE, png |-> w1]
             ELSE LET w2 == IF w1.sw = "missing" THEN [w1 EXCEPT !.sw = "dict"] ELSE w1
                  IN  IF w2.sw = "dict"
                      THEN [raised |-> FALSE,
                            png |-> [w2 EXCEPT !.saved[uid.n] = [has |-> TRUE, s |-> p]]]
                      ELSE [raised |-> TRUE, png |-> w2]
SaveMetadata(uid, png, p) ==
    IF uid.kind \in {"missing", "None"} \/ png.png # "dict"
    THEN [raised |-> FALSE, png |-> png]
    ELSE IF png.wf # "dict" THEN [raised |-> FALSE, png |-> png]
    ELSE LET w1 == IF png.extra = "missing" THEN [png EXCEPT !.extra = "dict"] ELSE png
         IN  IF w1.extra # "dict" THEN [raised |-> FALSE, png |-> w1]
             ELSE LET w2 == IF w1.sw = "missing" THEN [w1 EXCEPT !.sw = "dict"] ELSE w1
                  IN  IF w2.sw = "dict"
                      THEN [raised |-> FALSE,
                            png |-> [w2 EXCEPT !.saved[uid.n] = [has |-> TRUE, s |-> p]]]
                      ELSE [raised |-> FALSE, png |-> w2]

\* execute(self, prompt, seed, **kwargs), lines 111-160
Execute(p, s, uid, png) ==
    /\ pc # "while"
    /\ fn' = "execute"
    /\ prompt_arg' = p
    /\ seed_arg' = s
    /\ id_arg' = uid
    /\ png_in' = png
    /\ IF Validate(p, s) = "ok"
       THEN LET st   == RunLoop(Enter(p.s, s.n))
                meta == SaveMetadata(uid, png, st.prompt)
            IN  /\ SetLocals(st)
                /\ png_info' = meta.png
                /\ pc' = IF meta.raised THEN "raised" ELSE "returned"
                /\ result' = IF meta.raised THEN NoResult
                             ELSE [has |-> TRUE, s |-> st.prompt]
       ELSE /\ pc' = "raised"
            /\ SetLocals(NoLocals)
            /\ png_info' = png
            /\ result' = NoResult
    /\ UNCHANGED <<ref, svars>>

-----------------------------------------------------------------------------
(* SpotlessTextSplitByDelimiter.run *)

LF  == "\n"
BSL == "\\"
BEL == "BEL"   \* the character '\x07'

TextAlphabet == {"a", ",", " ", LF, BSL}
Texts == StringsUpTo(TextAlphabet, MaxText)

Delimiters == { <<>>, <<",">>, <<" ">>, <<",", " ">>, <<"a">>,
                <<BSL, "n">>, <<BSL, BSL>>, <<BSL, ",">>, <<BSL, "a">>,
                <<BSL>>, <<",", BSL>>, <<BSL, LF>> }

\* codecs.decode(delimiter, 'unicode_escape'), line 47: \n, \\ and \a are
\* escapes, backslash-newline is dropped, an unknown escape is kept as it
\* is, and a backslash that ends the string is a UnicodeDecodeError.
RECURSIVE Decode(_)
Decode(d) ==
    IF d = <<>> THEN [ok |-> TRUE, s |-> <<>>]
    ELSE IF Head(d) # BSL
    THEN LET r == Decode(Tail(d)) IN [ok |-> r.ok, s |-> <<Head(d)>> \o r.s]
    ELSE IF Len(d) = 1 THEN [ok |-> FALSE, s |-> <<>>]
    ELSE LET c == d[2]
             r == Decode(SubSeq(d, 3, Len(d)))
             out == CASE c = "n" -> <<LF>>
                      [] c = BSL -> <<BSL>>
                      [] c = "a" -> <<BEL>>
                      [] c = LF  -> <<>>
                      [] OTHER   -> <<BSL, c>>
         IN  [ok |-> r.ok, s |-> out \o r.s]

IsSpace(c) == c \in {" ", LF}

\* str.strip()
RECURSIVE LStrip(_)
LStrip(s) == IF s # <<>> /\ IsSpace(Head(s)) THEN LStrip(Tail(s)) ELSE s
RECURSIVE RStrip(_)
RStrip(s) ==
    IF s # <<>> /\ IsSpace(s[Len(s)]) THEN RStrip(SubSeq(s, 1, Len(s) - 1)) ELSE s
Strip(s) == RStrip(LStrip(s))

\* str.split(sep) for a non-empty sep: left to right, without overlap
RECURSIVE SplitStr(_, _, _)
SplitStr(s, sep, acc) ==
    IF s = <<>> THEN <<acc>>
    ELSE IF OccursAt(s, sep, 1)
    THEN <<acc>> \o SplitStr(SubSeq(s, Len(sep) + 1, Len(s)), sep, <<>>)
    ELSE SplitStr(Tail(s), sep, Append(acc, Head(s)))

\* [line for line in ... if line.strip()], line 48
RECURSIVE KeepNonBlank(_)
KeepNonBlank(ls) ==
    IF ls = <<>> THEN <<>>
    ELSE IF Strip(Head(ls)) # <<>> THEN <<Head(ls)>> \o KeepNonBlank(Tail(ls))
    ELSE KeepNonBlank(Tail(ls))

\* a[start:stop:step] for start, stop >= 0 and step >= 1 (0-based indices)
RECURSIVE SliceFrom(_, _, _, _)
SliceFrom(a, i, stop, step) ==
    IF i >= stop \/ i >= Len(a) THEN <<>>
    ELSE <<a[i + 1]>> \o SliceFrom(a, i + step, stop, step)

Slice_nostart(a, start, stop, step) == SliceFrom(a, 0, stop, step)
Slice(a, start, stop, step) == SliceFrom(a, start, stop, step)

\* lines 44-48: the sequence before the window, or the exception raised
Segments(t, d) ==
    IF d = <<>> THEN [err |-> "none", arr |-> <<Strip(t)>>]
    ELSE LET dec == Decode(d)
         IN  IF ~dec.ok THEN [err |-> "UnicodeDecodeError", arr |-> <<>>]
             ELSE IF dec.s = <<>> THEN [err |-> "ValueError", arr |-> <<>>]
             ELSE [err |-> "none", arr |-> KeepNonBlank(SplitStr(t, dec.s, <<>>))]

\* run(self, text, delimiter, start_index, skip_every, max_count), lines 42-52
Run(t, d, si, sk, mc) ==
    /\ text' = t
    /\ delimiter' = d
    /\ start_index' = si
    /\ skip_every' = sk
    /\ max_count' = mc
    /\ LET seg == Segments(t, d)
       IN  IF seg.err = "none"
           THEN /\ s_pc' = "returned"
                /\ arr' = Slice(seg.arr, si, si + mc * (sk + 1), sk + 1)
           ELSE /\ s_pc' = seg.err
                /\ arr' = <<>>
    /\ UNCHANGED <<wvars, ref, nvars>>

-----------------------------------------------------------------------------
(* Specifications *)

\* Nothing has been called
Idle(p, s) ==
    /\ pc = "idle"
    /\ prompt_arg = p
    /\ seed_arg = s
    /\ prompt = <<>>
    /\ rng = NoRng
    /\ match = NoMatch
    /\ result = NoResult
    /\ picks = <<>>
    /\ prev = <<>>
    /\ lastMatch = NoMatch
    /\ lastPick = <<>>
    /\ ref = [set |-> FALSE, p |-> <<>>, n |-> 0, s |-> <<>>, other |-> FALSE]
    /\ fn = "none"
    /\ id_arg = NoId
    /\ png_in = Png("missing", "missing", "missing", "missing")
    /\ png_info = Png("missing", "missing", "missing", "missing")
    /\ s_pc = "idle"
    /\ text = <<>>
    /\ delimiter = <<>>
    /\ start_index = 0
    /\ skip_every = 0
    /\ max_count = 1
    /\ arr = <<>>

PromptArgs(P) == {StrVal(p) : p \in P} \cup NonStrPrompts
SeedArgs == {IntVal(n) : n \in Seeds} \cup BoolSeeds \cup NonIntSeeds

\* The arguments of a call of process_wildcards: any prompt, any seed
Init == \E p \in PromptArgs(Prompts), s \in SeedArgs : Idle(p, s)

\* process_wildcards is called with them.  A call reads nothing but its
\* arguments, so Spec follows single calls.
Start == pc = "idle" /\ Call(prompt_arg, seed_arg)

Next == Start \/ Iterate \/ Return

Spec == Init /\ [][Next]_vars

\* The interpreter runs a call to its end: the loop body and the return
\* are taken whenever they are enabled.
FairSpec == Spec /\ WF_vars(Iterate) /\ WF_vars(Return)

\* Sequences of calls with valid arguments, the first result remembered
CallSmall == \E p \in SmallPrompts, n \in Seeds : Call(StrVal(p), IntVal(n))

DetNext == CallSmall \/ Iterate \/ ReturnRemember

DetSpec == Idle(StrVal(<<>>), IntVal(0)) /\ [][DetNext]_vars

\* The node: execute and process_wildcards (the HTTP route), any arguments
CallNode ==
    /\ pc = "idle"
    /\ \E p \in PromptArgs(SmallPrompts), s \in SeedArgs : Call(p, s)

ExecuteAny ==
    /\ pc = "idle"
    /\ \E p \in PromptArgs(SmallPrompts), s \in SeedArgs, uid \in IdArgs,
          png \in PngShapes : Execute(p, s, uid, png)

\* execute is called once more, on the metadata the first call left
ExecuteAgain ==
    /\ pc = "returned"
    /\ fn = "execute"
    /\ png_in.saved = EmptySaved
    /\ \E p \in {prompt_arg} \cup NonStrPrompts, s \in {seed_arg} \cup NonIntSeeds,
          uid \in IdArgs : Execute(p, s, uid, png_info)

NodeNext == CallNode \/ Iterate \/ Return \/ ExecuteAny \/ ExecuteAgain

NodeSpec == Idle(StrVal(<<>>), IntVal(0)) /\ [][NodeNext]_vars

\* One call of run with any arguments (run reads nothing but its arguments)
RunAny ==
    /\ s_pc = "idle"
    /\ \E t \in Texts, d \in Delimiters, si \in 0..MaxStart, sk \in 0..MaxSkip,
          mc \in 1..MaxCount : Run(t, d, si, sk, mc)

SplitNext == RunAny

SplitSpec == Idle(StrVal(<<>>), IntVal(0)) /\ [][SplitNext]_vars

-----------------------------------------------------------------------------
(* Notions the properties are stated in *)

\* s[i..j] is a wildcard group: '{', one or more non-brace characters, '}'
IsGroupAt(s, i, j) ==
    /\ 1 <= i /\ i + 2 <= j /\ j <= Len(s)
    /\ s[i] = "{" /\ s[j] = "}"
    /\ \A k \in (i + 1)..(j - 1) : s[k] \notin {"{", "}"}

Groups(s) == {g \in (1..Len(s)) \X (1..Len(s)) : IsGroupAt(s, g[1], g[2])}
GroupCount(s) == Cardinality(Groups(s))
HasGroup(s) == Groups(s) # {}
BraceCount(s, c) == Cardinality({k \in 1..Len(s) : s[k] = c})

\* The braces of s form only separate, non-nested groups
Separate(s) ==
    \A k \in 1..Len(s) :
        s[k] \in {"{", "}"} => \E g \in Groups(s) : k \in {g[1], g[2]}

\* The groups of s from left to right
RECURSIVE GroupsFrom(_, _)
GroupsFrom(s, i) ==
    IF i > Len(s) THEN <<>>
    ELSE IF \E j \in 1..Len(s) : IsGroupAt(s, i, j)
    THEN LET j == CHOOSE j \in 1..Len(s) : IsGroupAt(s, i, j)
         IN  <<<<i, j>>>> \o GroupsFrom(s, j + 1)
    ELSE GroupsFrom(s, i + 1)

\* The pipe-separated options of the group s[g[1]..g[2]]
GroupOptions(s, g) == SplitChar(SubSeq(s, g[1] + 1, g[2] - 1), "|", <<>>)

\* s with its k-th group from the left replaced by that group's option
\* number ix[k] (counted from 0), the text outside the groups kept
RECURSIVE Substituted(_, _, _, _, _)
Substituted(s, gs, ix, k, from) ==
    IF k > Len(gs) THEN SubSeq(s, from, Len(s))
    ELSE SubSeq(s, from, gs[k][1] - 1)
           \o GroupOptions(s, gs[k])[ix[k] + 1]
           \o Substituted(s, gs, ix, k + 1, gs[k][2] + 1)

\* str.strip(), stated by positions: from the first to the last
\* non-whitespace character
Trimmed(s) ==
    LET ns == {k \in 1..Len(s) : s[k] \notin {" ", "\n"}}
    IN  IF ns = {} THEN <<>>
        ELSE SubSeq(s, CHOOSE k \in ns : \A m \in ns : k <= m,
                       CHOOSE k \in ns : \A m \in ns : k >= m)

\* The elements of a at the 0-based positions start, start + (skip+1), ...
\* at most count of them
Window(a, start, skip, count) ==
    LET ks == {k \in 1..count : start + (k - 1) * (skip + 1) < Len(a)}
    IN  [k \in 1..Cardinality(ks) |-> a[start + (k - 1) * (skip + 1) + 1]]

Finished == pc \in {"returned", "raised"}
ValidArgs == prompt_arg.kind = "str" /\ seed_arg.kind \in {"int", "bool"}

-----------------------------------------------------------------------------
(* Properties *)

\* C1: in any sequence of calls, a call with the prompt and seed of the
\* first call returns what the first call returned, whatever was called in
\* between.
C1_Deterministic ==
    (pc = "returned" /\ ref.set /\ prompt_arg.s = ref.p /\ seed_arg.n = ref.n)
        => result = [has |-> TRUE, s |-> ref.s]

C1_Witness ==
    /\ pc = "returned" /\ ref.set /\ ref.other
    /\ prompt_arg.s = ref.p /\ seed_arg.n = ref.n
    /\ picks # <<>>
    /\ Len(GroupOptions(ref.p, GroupsFrom(ref.p, 1)[1])) >= 2

\* C2: every call that reaches the loop returns, and what it returns has
\* no wildcard group left.
C2_Terminates ==
    (pc = "while") ~> (pc = "returned" /\ result.has /\ ~HasGroup(result.s))

C2_Witness ==
    /\ pc = "returned"
    /\ ~Separate(prompt_arg.s)
    /\ Len(picks) >= 2

\* C3: for a prompt of separate groups, the call draws once per group, the
\* k-th draw is an index into the options of the k-th group from the left,
\* and the result is the prompt with each group replaced by that option.
C3_LeftToRight ==
    (pc = "returned" /\ Separate(prompt_arg.s)) =>
        LET gs == GroupsFrom(prompt_arg.s, 1)
        IN  /\ Len(picks) = Len(gs)
            /\ \A k \in 1..Len(gs) :
                   picks[k] \in 0..(Len(GroupOptions(prompt_arg.s, gs[k])) - 1)
            /\ result = [has |-> TRUE,
                         s |-> Substituted(prompt_arg.s, gs, picks, 1, 1)]

C3_Witness ==
    /\ pc = "returned"
    /\ Separate(prompt_arg.s)
    /\ Len(picks) >= 2
    /\ picks[1] # picks[2]
    /\ result.s # <<>>

\* C4: a prompt without a wildcard group is returned unchanged and nothing
\* is drawn from the generator.
C4_NoGroupIdentity ==
    (pc = "returned" /\ ~HasGroup(prompt_arg.s)) =>
        /\ result = [has |-> TRUE, s |-> prompt_arg.s]
        /\ picks = <<>>
        /\ rng.pos = 0

C4_Witness ==
    /\ pc = "returned"
    /\ ~HasGroup(prompt_arg.s)
    /\ \E i, j \in 1..Len(prompt_arg.s) :
           i < j /\ prompt_arg.s[i] = "{" /\ prompt_arg.s[j] = "}"

\* C5: a call of process_wildcards or execute whose prompt is absent or not
\* a string, or whose seed is absent or not an integer, raises, returns no
\* value, builds no generator, replaces nothing and writes no metadata.
C5_InvalidArgsRaise ==
    (pc # "idle" /\ ~ValidArgs) =>
        /\ pc = "raised"
        /\ ~result.has
        /\ rng = NoRng
        /\ picks = <<>>
        /\ prompt = <<>>
        /\ fn = "execute" => png_info = png_in

C5_Witness ==
    /\ pc = "raised"
    /\ fn = "execute"
    /\ prompt_arg.kind = "str" /\ HasGroup(prompt_arg.s)
    /\ seed_arg.kind = "str"
    /\ id_arg.kind = "str"
    /\ png_in.sw = "dict"

\* C6: for a non-empty delimiter run returns the non-blank segments of the
\* text split on the decoded delimiter, windowed by start_index,
\* skip_every and max_count.
C6_SplitWindow ==
    (s_pc # "idle" /\ delimiter # <<>>) =>
        /\ s_pc = "returned"
        /\ arr = Window(KeepNonBlank(SplitStr(text, Decode(delimiter).s, <<>>)),
                        start_index, skip_every, max_count)

\* The part of C6 the code meets: where the delimiter decodes, and not to
\* the empty string, run returns that sequence.
C6_WhereDecodable ==
    (s_pc # "idle" /\ delimiter # <<>> /\ Decode(delimiter).ok
       /\ Decode(delimiter).s # <<>>) =>
        /\ s_pc = "returned"
        /\ arr = Window(KeepNonBlank(SplitStr(text, Decode(delimiter).s, <<>>)),
                        start_index, skip_every, max_count)

\* C7 as stated: with the empty delimiter the result is the one-element
\* sequence of the trimmed text, whatever start_index is.
C7_Original ==
    (s_pc # "idle" /\ delimiter = <<>>) =>
        (s_pc = "returned" /\ arr = <<Trimmed(text)>>)

\* C7 as amended: with the empty delimiter the result is the window over
\* the one-element sequence of the trimmed text: that sequence when
\* start_index is 0, the empty sequence otherwise.
C7_EmptyDelimiter ==
    (s_pc # "idle" /\ delimiter = <<>>) =>
        /\ s_pc = "returned"
        /\ arr = IF start_index = 0 THEN <<Trimmed(text)>> ELSE <<>>

C7_Witness ==
    /\ s_pc = "returned"
    /\ delimiter = <<>>
    /\ start_index = 0
    /\ skip_every > 0
    /\ Len(text) >= 3 /\ text[1] = " " /\ text[3] = "\n"
    /\ arr = <<SubSeq(text, 2, 2)>>

\* The hidden inputs are malformed in one of the ways the node checks for
MalformedHidden ==
    \/ id_arg.kind \in {"missing", "None"}
    \/ png_in.png # "dict"
    \/ png_in.wf # "dict"
    \/ png_in.extra \in {"None", "other"}
    \/ png_in.sw \in {"None", "other"}

\* C8: execute with a valid prompt and seed never raises and returns what
\* process_wildcards resolves; with malformed hidden inputs the metadata is
\* left as it was.
C8_MetadataNeverFatal ==
    (fn = "execute" /\ Finished /\ ValidArgs) =>
        /\ pc = "returned"
        /\ result = [has |-> TRUE, s |-> RunLoop(Enter(prompt_arg.s, seed_arg.n)).prompt]
        /\ MalformedHidden => png_info = png_in

C8_Witness ==
    /\ fn = "execute"
    /\ pc = "returned"
    /\ id_arg.kind = "str"
    /\ png_in.sw = "other"
    /\ picks # <<>>
    /\ png_info = png_in

\* C9 as stated: every replacement leaves exactly one wildcard group fewer.
C9_Original ==
    picks # <<>> => GroupCount(prompt) = GroupCount(prev) - 1

\* C9 as amended: every replacement removes exactly one '{' and one '}';
\* the number of groups never grows: it drops by one, or stays the same
\* when the replacement closes a group with the braces around it; it drops
\* by one whenever the braces of the string form only separate groups.
C9_BracesDecrease ==
    picks # <<>> =>
        /\ BraceCount(prompt, "{") = BraceCount(prev, "{") - 1
        /\ BraceCount(prompt, "}") = BraceCount(prev, "}") - 1
        /\ GroupCount(prompt) \in {GroupCount(prev) - 1, GroupCount(prev)}
        /\ Separate(prev) => GroupCount(prompt) = GroupCount(prev) - 1

C9_Witness ==
    /\ picks # <<>>
    /\ GroupCount(prev) = 1
    /\ GroupCount(prompt) = 1
    /\ lastPick # <<>>

\* C10: the occurrence replaced is the match, the leftmost group of the
\* string: the text before and after it is unchanged.
C10_ReplacesTheMatch ==
    picks # <<>> =>
        /\ IsGroupAt(prev, lastMatch.start, lastMatch.end)
        /\ \A g \in Groups(prev) : lastMatch.start <= g[1]
        /\ prompt = SubSeq(prev, 1, lastMatch.start - 1)
                      \o lastPick
                      \o SubSeq(prev, lastMatch.end + 1, Len(prev))

C10_Witness ==
    /\ picks # <<>>
    /\ \E i \in (lastMatch.start + 1)..Len(prev) :
           OccursAt(prev, Group(prev, lastMatch), i)
    /\ lastPick # Group(prev, lastMatch)

====
